---- MODULE Spec2Model ----
(***************************************************************************)
(* Multi-provider zone graph: GraphIndex (data_model.py), the              *)
(* bidirectional A* engine (engine.py), the forward A* engine              *)
(* (engine_new.py) and the two RouteOptimizer facades.                     *)
(*                                                                         *)
(* Number representation.  The code computes with Python floats.  Here     *)
(* money is an integer number of milli-dollars (0.001 $), time an integer  *)
(* number of hours, and float('inf') is the integer Inf, larger than any   *)
(* finite sum the model can form.  The heuristic, distance * 0.01 $ with   *)
(* coordinates given to 0.1 degree, is floor(sqrt(dx^2 + dy^2)) milli-     *)
(* dollars with dx, dy in tenths of a degree.                              *)
(***************************************************************************)
EXTENDS Integers, Sequences, FiniteSets, TLC

\* float('inf'): the default of maxCost and maxETD, and the fallback path's totals.
Inf == 1000000000

None == "None"

Max(a, b) == IF a >= b THEN a ELSE b

EmptyMap == [x \in {} |-> 0]

\* dict.get(k, dflt)
Get(m, k, dflt) == IF k \in DOMAIN m THEN m[k] ELSE dflt

\* m[k] = v
Put(m, k, v) == [x \in (DOMAIN m) \cup {k} |-> IF x = k THEN v ELSE m[x]]

Range(s) == {s[i] : i \in DOMAIN s}

RECURSIVE Reverse(_)
\* list.reverse()
Reverse(s) == IF s = <<>> THEN <<>> ELSE Append(Reverse(Tail(s)), Head(s))

RECURSIVE Concat(_)
\* the lists of a list of lists, one after the other
Concat(ss) == IF ss = <<>> THEN <<>> ELSE Head(ss) \o Concat(Tail(ss))

(***************************************************************************)
(* data_model.py                                                           *)
(***************************************************************************)

\* a calculation that forgets the minimum charge above weight zero
calculateCost_without_minimum(route, weightKG) ==
    IF weightKG <= 0
    THEN route.minCharge
    ELSE LET charge == route.baseCharge + weightKG * route.perKGRate
         IN  charge + (charge * route.fuelLevyPct) \div 100

\* a calculation that adds the fuel levy to the minimum charge of a weightless shipment
calculateCost_levy_on_minimum(route, weightKG) ==
    LET charge == IF weightKG <= 0
                  THEN route.minCharge
                  ELSE Max(route.baseCharge + weightKG * route.perKGRate, route.minCharge)
    IN  charge + (charge * route.fuelLevyPct) \div 100

\* a calculation that charges every positive weight as one kilogram
calculateCost_flat_weight(route, weightKG) ==
    IF weightKG <= 0
    THEN route.minCharge
    ELSE LET charge == Max(route.baseCharge + route.perKGRate, route.minCharge)
         IN  charge + (charge * route.fuelLevyPct) \div 100

\* ProviderZoneRoute.calculateCost(weightKG); fuelLevyPct is a whole percentage
\* and the division by 100 is exact for the charges the model uses.
calculateCost(route, weightKG) ==
    IF weightKG <= 0
    THEN route.minCharge
    ELSE LET charge == Max(route.baseCharge + weightKG * route.perKGRate, route.minCharge)
         IN  charge + (charge * route.fuelLevyPct) \div 100

RECURSIVE PostcodeDict(_, _)
\* {pc.code: pc for pc in postcodes}: a later entry of the same code replaces an earlier one
PostcodeDict(postcodes, acc) ==
    IF postcodes = <<>> THEN acc
    ELSE PostcodeDict(Tail(postcodes), Put(acc, Head(postcodes).code, Head(postcodes)))

\* for route_list in self.zoneRoutes.values(): for route in route_list
AllRoutes(zoneRoutes) == Concat([i \in DOMAIN zoneRoutes |-> zoneRoutes[i].routes])

RECURSIVE ZoneAdjFold(_, _)
ZoneAdjFold(routes, adj) ==
    IF routes = <<>> THEN adj
    ELSE LET route == Head(routes)
             key == <<route.providerId, route.fromZone>>
         IN  ZoneAdjFold(Tail(routes), Put(adj, key, Append(Get(adj, key, <<>>), route)))

\* GraphIndex._buildZoneAdjacency: (provider_id, from_zone) -> [routes]
buildZoneAdjacency(zoneRoutes) == ZoneAdjFold(AllRoutes(zoneRoutes), EmptyMap)

RECURSIVE RevZoneAdjFold(_, _)
RevZoneAdjFold(routes, adj) ==
    IF routes = <<>> THEN adj
    ELSE LET route == Head(routes)
             key == <<route.providerId, route.toZone>>
         IN  RevZoneAdjFold(Tail(routes), Put(adj, key, Append(Get(adj, key, <<>>), route)))

\* GraphIndex._buildReverseZoneAdjacency: (provider_id, to_zone) -> [incoming routes]
buildReverseZoneAdjacency(zoneRoutes) == RevZoneAdjFold(AllRoutes(zoneRoutes), EmptyMap)

\* for providerId, zones in self.providerZones.items(): for zone in zones:
\* the zones in iteration order, each with the dictionary key it is filed under
AllZones(providerZones) ==
    Concat([i \in DOMAIN providerZones |->
              [j \in DOMAIN providerZones[i].zones |->
                 [providerId |-> providerZones[i].key, zone |-> providerZones[i].zones[j]]]])

RECURSIVE PCtoZoneMember(_, _, _)
PCtoZoneMember(pcs, entry, acc) ==
    IF pcs = <<>> THEN acc
    ELSE PCtoZoneMember(Tail(pcs), entry,
                        Put(acc, Head(pcs), Append(Get(acc, Head(pcs), <<>>), entry)))

RECURSIVE PCtoZoneFold(_, _)
PCtoZoneFold(zs, acc) ==
    IF zs = <<>> THEN acc
    ELSE PCtoZoneFold(Tail(zs),
                      PCtoZoneMember(Head(zs).zone.postcodes,
                                     <<Head(zs).providerId, Head(zs).zone.zoneCode>>, acc))

\* GraphIndex._buildPCtoZoneMap: postcode -> [(provider_id, zone_code)]
buildPCtoZoneMap(providerZones) == PCtoZoneFold(AllZones(providerZones), EmptyMap)

RECURSIVE ZoneToPCFold(_, _)
ZoneToPCFold(zs, acc) ==
    IF zs = <<>> THEN acc
    ELSE ZoneToPCFold(Tail(zs),
                      Put(acc, <<Head(zs).providerId, Head(zs).zone.zoneCode>>,
                          Head(zs).zone.postcodes))

\* GraphIndex._buildZoneToPCMap: (provider_id, zone_code) -> [postcodes]
buildZoneToPCMap(providerZones) == ZoneToPCFold(AllZones(providerZones), EmptyMap)

\* GraphIndex.__init__
GraphIndex(postcodes, providerZones, zoneRoutes) ==
    [postcodes   |-> PostcodeDict(postcodes, EmptyMap),
     zoneAdj     |-> buildZoneAdjacency(zoneRoutes),
     revZoneAdj  |-> buildReverseZoneAdjacency(zoneRoutes),
     pcToZones   |-> buildPCtoZoneMap(providerZones),
     zoneToPCs   |-> buildZoneToPCMap(providerZones)]

get_OutgoingRoutes(ix, providerId, fromZone) == Get(ix.zoneAdj, <<providerId, fromZone>>, <<>>)

get_IncomingRoutes(ix, providerId, toZone) == Get(ix.revZoneAdj, <<providerId, toZone>>, <<>>)

get_ZonesForPostcode(ix, postcode) == Get(ix.pcToZones, postcode, <<>>)

get_PostcodesForZone(ix, providerId, zoneCode) == Get(ix.zoneToPCs, <<providerId, zoneCode>>, <<>>)

(***************************************************************************)
(* Heuristics of the two engines                                           *)
(***************************************************************************)

\* self.state_coords, in tenths of a degree
state_coords ==
    [s \in {"NSW", "VIC", "QLD", "WA", "SA", "TAS", "ACT", "NT"} |->
       CASE s = "NSW" -> <<1509, -339>>
         [] s = "VIC" -> <<1451, -378>>
         [] s = "QLD" -> <<1530, -275>>
         [] s = "WA"  -> <<1159, -319>>
         [] s = "SA"  -> <<1392, -344>>
         [] s = "TAS" -> <<1471, -429>>
         [] s = "ACT" -> <<1492, -353>>
         [] s = "NT"  -> <<1308, -125>>]

\* the coordinates a heuristic can be evaluated at: a state's, or the (0,0)
\* that engine_new.py substitutes for a state it does not know
CoordPoints == Range(state_coords) \cup {<<0, 0>>}

ISqrt(n) == CHOOSE r \in 0..1600 : r * r <= n /\ (r + 1) * (r + 1) > n

\* math.sqrt((lonA - lonB)**2 + (latA - latB)**2) * 0.01, in milli-dollars
DistTable ==
    [a \in CoordPoints, b \in CoordPoints |->
       ISqrt((a[1] - b[1]) * (a[1] - b[1]) + (a[2] - b[2]) * (a[2] - b[2]))]

\* BidirectionalAStarEngine._heuristic
heuristicBi(ix, pcA, pcB) ==
    IF pcA \notin DOMAIN ix.postcodes \/ pcB \notin DOMAIN ix.postcodes THEN 0
    ELSE LET stateA == IF ix.postcodes[pcA].state = "" THEN "NSW" ELSE ix.postcodes[pcA].state
             stateB == IF ix.postcodes[pcB].state = "" THEN "NSW" ELSE ix.postcodes[pcB].state
         IN  IF stateA \notin DOMAIN state_coords \/ stateB \notin DOMAIN state_coords THEN 0
             ELSE DistTable[state_coords[stateA], state_coords[stateB]]

\* FreightAStarEngine._heuristic
heuristicUni(ix, pcA, pcB) ==
    IF pcA \notin DOMAIN ix.postcodes \/ pcB \notin DOMAIN ix.postcodes THEN 0
    ELSE LET coordA == Get(state_coords, ix.postcodes[pcA].state, <<0, 0>>)
             coordB == Get(state_coords, ix.postcodes[pcB].state, <<0, 0>>)
         IN  DistTable[coordA, coordB]

\* _heuristic of the engine in use
heuristic(eng, ix, pcA, pcB) ==
    IF eng = "bi" THEN heuristicBi(ix, pcA, pcB) ELSE heuristicUni(ix, pcA, pcB)

\* _heuristic_node (both engines): a Zone vertex is estimated from the first
\* postcode of its member list, 0.0 when it has none
heuristic_node(eng, ix, node, goalPC) ==
    IF node[1] = "pc" THEN heuristic(eng, ix, node[2], goalPC)
    ELSE LET pcs == get_PostcodesForZone(ix, node[3], node[2])
         IN  IF pcs # <<>> THEN heuristic(eng, ix, pcs[1], goalPC) ELSE 0

(***************************************************************************)
(* Search graph.  A vertex is the tuple (node_type, node_id, provider_id); *)
(* a neighbour is (neighbor_node, edge_cost, edge_etd, route_info).        *)
(***************************************************************************)

PCNode(code) == <<"pc", code, None>>

\* a zone vertex that carries the zone code only
PZNode_without_provider(zoneCode, providerId) == <<"pz", zoneCode, "A">>

PZNode(zoneCode, providerId) == <<"pz", zoneCode, providerId>>

\* route_info: its 'type', and its 'route' as a list of zero or one route
Info(type, route) == [type |-> type, route |-> route]

Neighbor(node, cost, etd, info) == [node |-> node, cost |-> cost, etd |-> etd, info |-> info]

\* BidirectionalAStarEngine._get_neighbors (maxHops is accepted and never read)
get_neighbors(ix, node, weightKG, forward) ==
    IF node[1] = "pc"
    THEN LET zs == get_ZonesForPostcode(ix, node[2])
         IN  [i \in DOMAIN zs |->
                Neighbor(PZNode(zs[i][2], zs[i][1]), 0, 0,
                         Info(IF forward THEN "entry" ELSE "exit", <<>>))]
    ELSE LET routes == IF forward THEN get_OutgoingRoutes(ix, node[3], node[2])
                       ELSE get_IncomingRoutes(ix, node[3], node[2])
             pcs == get_PostcodesForZone(ix, node[3], node[2])
         IN  [i \in DOMAIN routes |->
                Neighbor(PZNode(IF forward THEN routes[i].toZone ELSE routes[i].fromZone, node[3]),
                         calculateCost(routes[i], weightKG), routes[i].deliveryHrs,
                         Info("zone_route", <<routes[i]>>))]
             \o
             [i \in DOMAIN pcs |->
                Neighbor(PCNode(pcs[i]), 0, 0, Info(IF forward THEN "exit" ELSE "entry", <<>>))]

\* FreightAStarEngine._get_forward_neighbors
get_forward_neighbors(ix, node, weightKG) ==
    IF node[1] = "pc"
    THEN LET zones == get_ZonesForPostcode(ix, node[2])
         IN  [i \in DOMAIN zones |->
                Neighbor(PZNode(zones[i][2], zones[i][1]), 0, 0, Info("entry", <<>>))]
    ELSE LET routes == get_OutgoingRoutes(ix, node[3], node[2])
             pcs_in_zone == get_PostcodesForZone(ix, node[3], node[2])
         IN  [i \in DOMAIN routes |->
                Neighbor(PZNode(routes[i].toZone, node[3]),
                         calculateCost(routes[i], weightKG), routes[i].deliveryHrs,
                         Info("transit", <<routes[i]>>))]
             \o
             [i \in DOMAIN pcs_in_zone |->
                Neighbor(PCNode(pcs_in_zone[i]), 0, 0, Info("exit", <<>>))]

(***************************************************************************)
(* The locals of one search: the heap open_set of (f, counter, node), the  *)
(* counter, g_score, came_from, edge_data, (engine.py) visited and         *)
(* (engine_new.py) found_paths.                                            *)
(* engine.py also fills a dict f_score that nothing reads; it is left out. *)
(***************************************************************************)

NoSearch ==
    [open_set |-> {}, counter |-> 0, g_score |-> EmptyMap, came_from |-> EmptyMap,
     edge_data |-> EmptyMap, visited |-> {}, found_paths |-> <<>>]

\* a pop that takes, among the entries of least f, the one pushed last
HeapMin_newest_among_ties(open_set) ==
    CHOOSE e \in open_set :
       \A o \in open_set : e[1] < o[1] \/ (e[1] = o[1] /\ e[2] >= o[2])

\* heapq.heappop: the least entry, by f and then by counter
HeapMin(open_set) ==
    CHOOSE e \in open_set :
       \A o \in open_set : e[1] < o[1] \/ (e[1] = o[1] /\ e[2] <= o[2])

\* engine.py lines 79-96: the state of _astar_search before its loop
astar_init(ix, startPC, goalPC) ==
    [open_set  |-> {<<heuristicBi(ix, startPC, goalPC), 0, PCNode(startPC)>>},
     counter   |-> 1,
     g_score   |-> (PCNode(startPC) :> 0),
     came_from |-> EmptyMap,
     edge_data |-> EmptyMap,
     visited   |-> {},
     found_paths |-> <<>>]

\* engine.py line 125: the thresholds an edge must pass
within_thresholds(neighbor_g, edge_etd, maxCost, maxETD) ==
    ~(neighbor_g > maxCost \/ edge_etd > maxETD)

\* an update that records the better cost and parent and leaves the edge metadata as it was
relax_bi_forgets_edge(s, ix, current, nb, neighbor_g, goalPC) ==
    [s EXCEPT !.came_from = Put(@, nb.node, current),
              !.g_score   = Put(@, nb.node, neighbor_g),
              !.open_set  = @ \cup {<<neighbor_g + heuristic_node("bi", ix, nb.node, goalPC),
                                      s.counter, nb.node>>},
              !.counter   = @ + 1]

\* engine.py lines 128-138: record the better way into the neighbour and push it
relax_bi(s, ix, current, nb, neighbor_g, goalPC) ==
    [s EXCEPT !.came_from = Put(@, nb.node, current),
              !.g_score   = Put(@, nb.node, neighbor_g),
              !.edge_data = Put(@, nb.node, [cost |-> nb.cost, etd |-> nb.etd, route |-> nb.info]),
              !.open_set  = @ \cup {<<neighbor_g + heuristic_node("bi", ix, nb.node, goalPC),
                                      s.counter, nb.node>>},
              !.counter   = @ + 1]

RECURSIVE expand_bi(_, _, _, _, _, _, _, _)
\* engine.py lines 115-138: the loop over the neighbours of current
expand_bi(s, ix, current, current_g, neighbors, goalPC, maxCost, maxETD) ==
    IF neighbors = <<>> THEN s
    ELSE LET nb == Head(neighbors)
             neighbor_g == current_g + nb.cost
             skip == \/ (nb.node \in DOMAIN s.g_score /\ neighbor_g >= s.g_score[nb.node])
                     \/ ~within_thresholds(neighbor_g, nb.etd, maxCost, maxETD)
         IN  expand_bi(IF skip THEN s ELSE relax_bi(s, ix, current, nb, neighbor_g, goalPC),
                       ix, current, current_g, Tail(neighbors), goalPC, maxCost, maxETD)

\* engine.py lines 99-138: one turn of the while loop of _astar_search
astar_iteration(s, ix, weightKG, goalPC, forward, maxCost, maxETD) ==
    LET top == HeapMin(s.open_set)
        current == top[3]
        popped == [s EXCEPT !.open_set = @ \ {top}]
    IN  IF current \in s.visited THEN popped
        ELSE LET seen == [popped EXCEPT !.visited = @ \cup {current}]
                 current_g == s.g_score[current]
             IN  IF current_g > maxCost THEN seen
                 ELSE expand_bi(seen, ix, current, current_g,
                                get_neighbors(ix, current, weightKG, forward),
                                goalPC, maxCost, maxETD)

\* engine.py lines 140-144: what _astar_search returns
astar_result(s) == [parent |-> s.came_from, cost |-> s.g_score, edge |-> s.edge_data]

NoResult == [parent |-> EmptyMap, cost |-> EmptyMap, edge |-> EmptyMap]

(***************************************************************************)
(* MultiHopPath and path reconstruction                                    *)
(***************************************************************************)

RECURSIVE SetToSeq(_)
\* list(a_set): the elements, each once, in an order the program does not choose
SetToSeq(S) == IF S = {} THEN <<>> ELSE LET x == CHOOSE y \in S : TRUE IN <<x>> \o SetToSeq(S \ {x})

\* a path record whose numHops counts the segments that carry a provider
MultiHopPath_counts_legs(totalCost, totalETD, nodes, segments, providers) ==
    [totalCost |-> totalCost, totalETD |-> totalETD, nodes |-> nodes, segments |-> segments,
     providersInvolved |-> SetToSeq(providers),
     numHops |-> Cardinality({i \in DOMAIN segments : segments[i].providerId # None}),
     reliabilityScore |-> 1000, totScore |-> 0, rank |-> 0]

\* MultiHopPath(...): reliabilityScore defaults to 1.0 (1000 thousandths),
\* totScore to 0.0 and rank to 0; __post_init__ rebuilds providersInvolved
\* from its set.  The generated id and the shipmentId are left out.
MultiHopPath(totalCost, totalETD, nodes, segments, providers) ==
    [totalCost |-> totalCost, totalETD |-> totalETD, nodes |-> nodes, segments |-> segments,
     providersInvolved |-> SetToSeq(providers), numHops |-> Cardinality(providers),
     reliabilityScore |-> 1000, totScore |-> 0, rank |-> 0]

\* BidirectionalAStarEngine.create_default_path
create_default_path_bi(originPC, destPC) ==
    MultiHopPath(Inf, Inf, <<PCNode(originPC), PCNode(destPC)>>, <<>>, {})

\* FreightAStarEngine.create_default_path
create_default_path_uni == MultiHopPath(Inf, Inf, <<>>, <<>>, {})

\* engine.py lines 273-283: the segment _unroll_path builds for curr; a segment
\* without the key 'providerId' has providerId None here
unroll_segment(curr, came_from, data) ==
    [fromZone   |-> came_from[curr][2],
     toZone     |-> curr[2],
     cost       |-> data.cost,
     etd        |-> data.etd,
     type       |-> data.route.type,
     service    |-> IF data.route.route # <<>> THEN data.route.route[1].serviceType ELSE "",
     providerId |-> IF data.route.route # <<>> THEN data.route.route[1].providerId ELSE None]

RECURSIVE unroll_path(_, _, _)
\* BidirectionalAStarEngine._unroll_path: (nodes, segments, totalCost, totalETD),
\* from end_node back along came_from
unroll_path(curr, came_from, edge_data) ==
    LET rest == IF curr \in DOMAIN came_from
                THEN unroll_path(came_from[curr], came_from, edge_data)
                ELSE [nodes |-> <<>>, segments |-> <<>>, totalCost |-> 0, totalETD |-> 0]
    IN  IF curr \in DOMAIN edge_data
        THEN [nodes     |-> <<curr>> \o rest.nodes,
              segments  |-> <<unroll_segment(curr, came_from, edge_data[curr])>> \o rest.segments,
              totalCost |-> edge_data[curr].cost + rest.totalCost,
              totalETD  |-> edge_data[curr].etd + rest.totalETD]
        ELSE [rest EXCEPT !.nodes = <<curr>> \o @]

\* a merge that keeps the meeting vertex of both halves
merged_path_meeting_twice(meet_node, forward, backward) ==
    LET f == unroll_path(meet_node, forward.parent, forward.edge)
        b == unroll_path(meet_node, backward.parent, backward.edge)
        full_segs == Reverse(f.segments) \o b.segments
    IN  MultiHopPath(f.totalCost + b.totalCost, f.totalETD + b.totalETD,
                     Reverse(f.nodes) \o b.nodes, full_segs,
                     {full_segs[i].providerId : i \in DOMAIN full_segs} \ {None})

\* engine.py lines 307-336: the path that meets at meet_node
merged_path(meet_node, forward, backward) ==
    LET f == unroll_path(meet_node, forward.parent, forward.edge)
        b == unroll_path(meet_node, backward.parent, backward.edge)
        full_segs == Reverse(f.segments) \o b.segments
    IN  MultiHopPath(f.totalCost + b.totalCost, f.totalETD + b.totalETD,
                     Reverse(f.nodes) \o Tail(b.nodes), full_segs,
                     {full_segs[i].providerId : i \in DOMAIN full_segs} \ {None})


\* engine.py lines 298-305: the meeting vertices, in the order the set yields them;
\* order lists the postcode codes in the iteration order of this process
meeting_nodes(forward, backward, order) ==
    LET common_nodes == (DOMAIN forward.cost) \cap (DOMAIN backward.cost)
    IN  SelectSeq([i \in DOMAIN order |-> PCNode(order[i])], LAMBDA n : n \in common_nodes)

\* a merge that returns the empty list when the searches share no postcode
merge_paths_without_default(originPC, destPC, forward, backward, order) ==
    LET meets == meeting_nodes(forward, backward, order)
    IN  [i \in DOMAIN meets |-> merged_path(meets[i], forward, backward)]

\* BidirectionalAStarEngine._merge_paths
merge_paths(originPC, destPC, forward, backward, order) ==
    LET meets == meeting_nodes(forward, backward, order)
        paths == [i \in DOMAIN meets |-> merged_path(meets[i], forward, backward)]
    IN  IF paths = <<>> THEN <<create_default_path_bi(originPC, destPC)>> ELSE paths

\* the key of a list.sort call
SortKey(path, key) ==
    CASE key = "totalCost" -> path.totalCost
      [] key = "totalETD"  -> path.totalETD
      [] key = "totScore"  -> 0 - path.totScore

RECURSIVE InsertSorted(_, _, _)
InsertSorted(sorted, path, key) ==
    IF sorted = <<>> THEN <<path>>
    ELSE IF SortKey(path, key) < SortKey(Head(sorted), key) THEN <<path>> \o sorted
    ELSE <<Head(sorted)>> \o InsertSorted(Tail(sorted), path, key)

RECURSIVE SortedFrom(_, _, _)
SortedFrom(paths, acc, key) ==
    IF paths = <<>> THEN acc ELSE SortedFrom(Tail(paths), InsertSorted(acc, Head(paths), key), key)

\* list.sort(key=...): stable, ascending; "totScore" is the descending sort
\* sort(key=totScore, reverse=True), which keeps equal elements in their order
sort_paths(paths, key) == SortedFrom(paths, <<>>, key)

\* a cut that keeps one path more than asked for
TopK_one_more(all_paths, topK) ==
    SubSeq(all_paths, 1, IF topK + 1 < Len(all_paths) THEN topK + 1 ELSE Len(all_paths))

\* all_paths[:topK] (Python slicing: a negative topK cuts from the end)
TopK(all_paths, topK) ==
    IF topK >= 0 THEN SubSeq(all_paths, 1, IF topK < Len(all_paths) THEN topK ELSE Len(all_paths))
    ELSE SubSeq(all_paths, 1, Max(Len(all_paths) + topK, 0))

\* a ranking that skips the sort by cost
rank_top_k_unsorted(all_paths, topK) == TopK(all_paths, topK)

\* engine.py lines 67-69
rank_top_k(all_paths, topK) == TopK(sort_paths(all_paths, "totalCost"), topK)

(***************************************************************************)
(* FreightAStarEngine                                                      *)
(***************************************************************************)

\* engine_new.py lines 35-47
uni_init(ix, originPC, destPC) ==
    [open_set  |-> {<<heuristicUni(ix, originPC, destPC), 0, PCNode(originPC)>>},
     counter   |-> 0,
     g_score   |-> (PCNode(originPC) :> 0),
     came_from |-> EmptyMap,
     edge_data |-> EmptyMap,
     visited   |-> {},
     found_paths |-> <<>>]

\* engine_new.py line 68: the threshold an edge must pass (maxETD is not read)
uni_within_thresholds(tentative_g, etd, maxCost, maxETD) == ~(tentative_g > maxCost)

\* engine_new.py lines 71-80
relax_uni(s, ix, current, nb, tentative_g, destPC) ==
    [s EXCEPT !.came_from = Put(@, nb.node, current),
              !.g_score   = Put(@, nb.node, tentative_g),
              !.edge_data = Put(@, nb.node, [cost |-> nb.cost, etd |-> nb.etd, info |-> nb.info]),
              !.counter   = @ + 1,
              !.open_set  = @ \cup {<<tentative_g + heuristic_node("uni", ix, nb.node, destPC),
                                      s.counter + 1, nb.node>>}]

RECURSIVE expand_uni(_, _, _, _, _, _, _)
\* engine_new.py lines 65-80
expand_uni(s, ix, current, neighbors, destPC, maxCost, maxETD) ==
    IF neighbors = <<>> THEN s
    ELSE LET nb == Head(neighbors)
             tentative_g == s.g_score[current] + nb.cost
             take == /\ uni_within_thresholds(tentative_g, nb.etd, maxCost, maxETD)
                     /\ tentative_g < Get(s.g_score, nb.node, Inf)
         IN  expand_uni(IF take THEN relax_uni(s, ix, current, nb, tentative_g, destPC) ELSE s,
                        ix, current, Tail(neighbors), destPC, maxCost, maxETD)

\* a turn of the loop that reads the least entry of the heap and leaves it there
uni_iteration_without_pop(s, ix, weightKG, destPC, maxCost, maxETD) ==
    LET top == HeapMin(s.open_set)
        current == top[3]
    IN  IF s.g_score[current] > maxCost THEN s
        ELSE expand_uni(s, ix, current, get_forward_neighbors(ix, current, weightKG),
                        destPC, maxCost, maxETD)

\* engine_new.py lines 59-80: a turn of the while loop that pops a vertex other than the goal
uni_iteration(s, ix, weightKG, destPC, maxCost, maxETD) ==
    LET top == HeapMin(s.open_set)
        current == top[3]
        popped == [s EXCEPT !.open_set = @ \ {top}]
    IN  IF s.g_score[current] > maxCost THEN popped
        ELSE expand_uni(popped, ix, current, get_forward_neighbors(ix, current, weightKG),
                        destPC, maxCost, maxETD)

RECURSIVE reconstruct(_, _, _)
\* engine_new.py lines 136-157: nodes, transit segments and totals, goal first
reconstruct(current, came_from, edge_data) ==
    IF current \notin DOMAIN came_from
    THEN [nodes |-> <<current>>, segments |-> <<>>, totalCost |-> 0, totalETD |-> 0]
    ELSE LET data == edge_data[current]
             rest == reconstruct(came_from[current], came_from, edge_data)
             seg  == IF data.info.type = "transit"
                     THEN <<[fromZone   |-> data.info.route[1].fromZone,
                             toZone     |-> data.info.route[1].toZone,
                             cost       |-> data.cost,
                             etd        |-> data.etd,
                             type       |-> "",
                             service    |-> "",
                             providerId |-> data.info.route[1].providerId]>>
                     ELSE <<>>
         IN  [nodes     |-> <<current>> \o rest.nodes,
              segments  |-> seg \o rest.segments,
              totalCost |-> data.cost + rest.totalCost,
              totalETD  |-> data.etd + rest.totalETD]

\* FreightAStarEngine._reconstruct_path
reconstruct_path(current, came_from, edge_data) ==
    LET r == reconstruct(current, came_from, edge_data)
        segments == Reverse(r.segments)
    IN  MultiHopPath(r.totalCost, r.totalETD, Reverse(r.nodes), segments,
                     {segments[i].providerId : i \in DOMAIN segments})

(***************************************************************************)
(* RouteOptimizer                                                          *)
(***************************************************************************)

\* topK=10 of optimized_for_cost and optimized_for_time, and the default of find_mltihop_path
TopKDefault == 10

\* the default of maxHops in both find_mltihop_path signatures
MaxHopsDefault == 5

\* topK=15 of optimize_multi_criteria
TopKMulti == 15

\* floor(num * 10^6 / den), in two steps that stay within 32 bits
Millionths(num, den) ==
    LET q1 == (num * 1000) \div den
        r1 == (num * 1000) % den
    IN  q1 * 1000 + (r1 * 1000) \div den

\* engine.py lines 374-379, in units of 10^-8:
\* 0.4 / (1 + totalCost/1000) + 0.35 / (1 + totalETD/24) + 0.25 * reliabilityScore
composite_score(path) ==
    LET costScore == IF path.totalCost >= Inf THEN 0
                     ELSE Millionths(1000000, 1000000 + path.totalCost)
        timeScore == IF path.totalETD >= Inf THEN 0 ELSE Millionths(24, 24 + path.totalETD)
    IN  40 * costScore + 35 * timeScore + 25000 * path.reliabilityScore

\* engine.py lines 382-383
assign_ranks(paths) == [i \in DOMAIN paths |-> [paths[i] EXCEPT !.rank = i]]

\* engine.py lines 372-385: score, sort by descending score, rank
multi_criteria(paths) ==
    assign_ranks(sort_paths([i \in DOMAIN paths |->
                               [paths[i] EXCEPT !.totScore = composite_score(paths[i])]],
                            "totScore"))

\* engine.py line 364
by_time(paths) == sort_paths(paths, "totalETD")

\* what the RouteOptimizer method does with the list find_mltihop_path returned:
\* engine.py lines 356-385; engine_new.py lines 187-194 return it as it is
facade_result(engine, entry, paths) ==
    IF engine = "bi" /\ entry = "optimized_for_time" THEN by_time(paths)
    ELSE IF engine = "bi" /\ entry = "optimize_multi_criteria" THEN multi_criteria(paths)
    ELSE paths

\* the arguments the entry point hands to find_mltihop_path
\* (engine.py lines 358, 363, 369; engine_new.py lines 188, 191, 194)
find_args(engine, entry, maxCost, maxETD, topK) ==
    CASE entry = "find_mltihop_path"  -> [maxCost |-> maxCost, maxETD |-> maxETD, topK |-> topK]
      [] entry = "optimized_for_cost" ->
            [maxCost |-> Inf, maxETD |-> maxETD, topK |-> TopKDefault]
      [] entry = "optimized_for_time" ->
            [maxCost |-> maxCost, maxETD |-> Inf, topK |-> TopKDefault]
      [] entry = "optimize_multi_criteria" ->
            [maxCost |-> Inf, maxETD |-> Inf,
             topK |-> IF engine = "bi" THEN TopKMulti ELSE TopKDefault]

(***************************************************************************)
(* The entity collections the indexes of the model are built from          *)
(***************************************************************************)

\* Postcode(code, suburb, state): the suburb and region are never read
Postcode(code, state) == [code |-> code, state |-> state]

\* ProviderZone(providerId, zoneCode, postcodes, state)
ProviderZone(providerId, zoneCode, postcodes) ==
    [providerId |-> providerId, zoneCode |-> zoneCode, postcodes |-> postcodes]

\* ProviderZoneRoute(...), with the fields the engines read
ProviderZoneRoute(providerId, fromZone, toZone, baseCharge, perKGRate, minCharge, deliveryHrs, fuelLevyPct) ==
    [providerId |-> providerId, fromZone |-> fromZone, toZone |-> toZone,
     serviceType |-> "Standard", baseCharge |-> baseCharge, perKGRate |-> perKGRate,
     minCharge |-> minCharge, deliveryHrs |-> deliveryHrs, fuelLevyPct |-> fuelLevyPct]

\* the number of further postcodes of the wide zone of the "fan" network
FanSize == 8

\* the number of finite maxCost values a query may carry
NumCostBounds == 2

\* the number of finite maxETD values a query may carry
NumETDBounds == 1

\* the heaviest shipment, in units of 10 kg
MaxWeightSteps == 1

FanCode(i) == CASE i = 1 -> "2001" [] i = 2 -> "2002" [] i = 3 -> "2003" [] i = 4 -> "2004"
                [] i = 5 -> "2005" [] i = 6 -> "2006" [] i = 7 -> "2007" [] i = 8 -> "2008"
                [] i = 9 -> "2009" [] i = 10 -> "2010" [] i = 11 -> "2011" [] OTHER -> "2012"

FanCodes == [i \in 1..FanSize |-> FanCode(i)]

\* "ladder": one provider, six zones between a Perth origin and a Brisbane
\* destination; two zones list a far-away postcode first.
Ladder ==
    [name |-> "ladder",
     postcodes |-> <<Postcode("6000", "WA"), Postcode("4000", "QLD"), Postcode("4001", "QLD"),
                     Postcode("6001", "WA"), Postcode("4002", "QLD"), Postcode("6002", "WA")>>,
     providerZones |->
        <<[key |-> "A",
           zones |-> <<ProviderZone("A", "W1", <<"6000">>),
                       ProviderZone("A", "Q1", <<"4001", "6000">>),
                       ProviderZone("A", "X", <<"4002">>),
                       ProviderZone("A", "S", <<"6002">>),
                       ProviderZone("A", "Q2", <<"4000">>),
                       ProviderZone("A", "W2", <<"6001", "4000">>)>>]>>,
     zoneRoutes |->
        <<[key |-> "A",
           routes |-> <<ProviderZoneRoute("A", "W1", "X", 0, 50, 100, 10, 0),
                        ProviderZoneRoute("A", "Q1", "X", 0, 50, 200, 12, 0),
                        ProviderZoneRoute("A", "Q1", "S", 0, 50, 250, 20, 0),
                        ProviderZoneRoute("A", "X", "S", 0, 50, 100, 10, 0),
                        ProviderZoneRoute("A", "S", "Q2", 0, 50, 100, 10, 10),
                        ProviderZoneRoute("A", "S", "W2", 0, 50, 200, 12, 0),
                        ProviderZoneRoute("A", "X", "W2", 0, 50, 250, 20, 0)>>]>>,
     codes   |-> <<"6000", "4000", "4001", "6001", "4002", "6002">>,
     origins |-> {"6000", "9999"},
     dests   |-> {"4000", "9999"}]

\* "fan": two providers that both name their zones Z1, Z2, ...; provider A's Z1
\* holds the origin and FanSize further postcodes and A goes straight to the
\* destination, slowly; provider B goes by way of postcode 2900, fast, in two legs.
Fan ==
    [name |-> "fan",
     postcodes |-> <<Postcode("2000", "NSW"), Postcode("3000", "VIC"), Postcode("2900", "ACT")>>
                   \o [i \in 1..FanSize |-> Postcode(FanCodes[i], "NSW")],
     providerZones |->
        <<[key |-> "A",
           zones |-> <<ProviderZone("A", "Z1", <<"2000">> \o FanCodes),
                       ProviderZone("A", "Z2", <<"3000">>)>>],
          [key |-> "B",
           zones |-> <<ProviderZone("B", "Z1", <<"2000">>),
                       ProviderZone("B", "Z2", <<"2900">>),
                       ProviderZone("B", "Z3", <<"3000">>)>>]>>,
     zoneRoutes |->
        <<[key |-> "A", routes |-> <<ProviderZoneRoute("A", "Z1", "Z2", 0, 30, 100, 50, 0)>>],
          [key |-> "B", routes |-> <<ProviderZoneRoute("B", "Z1", "Z2", 0, 0, 100, 2, 0),
                                     ProviderZoneRoute("B", "Z2", "Z3", 0, 0, 100, 3, 0)>>]>>,
     codes   |-> <<"2000", "3000", "2900">> \o FanCodes,
     origins |-> {"2000"},
     dests   |-> {"3000"}]

\* "hub": provider A carries from the origin to a hand-off postcode, provider B
\* from there to the destination; A also has a dear direct route.  "0800" is in
\* the postcode table and in no zone, "9999" is in neither.
Hub ==
    [name |-> "hub",
     postcodes |-> <<Postcode("2000", "NSW"), Postcode("2001", "NSW"), Postcode("2600", "ACT"),
                     Postcode("3000", "VIC"), Postcode("0800", "XX")>>,
     providerZones |->
        <<[key |-> "A",
           zones |-> <<ProviderZone("A", "Z1", <<"2000", "2001">>),
                       ProviderZone("A", "Z2", <<"2600">>),
                       ProviderZone("A", "Z3", <<"3000">>)>>],
          [key |-> "B",
           zones |-> <<ProviderZone("B", "Z1", <<"2600">>),
                       ProviderZone("B", "Z2", <<"3000">>)>>]>>,
     zoneRoutes |->
        <<[key |-> "A", routes |-> <<ProviderZoneRoute("A", "Z1", "Z2", 50, 5, 100, 8, 0),
                                     ProviderZoneRoute("A", "Z1", "Z3", 200, 20, 300, 6, 10)>>],
          [key |-> "B", routes |-> <<ProviderZoneRoute("B", "Z1", "Z2", 0, 10, 100, 30, 0)>>]>>,
     codes   |-> <<"2000", "2001", "2600", "3000", "0800">>,
     origins |-> {"2000", "0800", "9999"},
     dests   |-> {"3000", "2001", "0800", "9999"}]

\* one zone of provider A holds origin and destination (and a far postcode listed
\* first); provider B also carries the consignment between them for its minimum charge
Shared ==
    [name |-> "shared",
     postcodes |-> <<Postcode("2000", "NSW"), Postcode("2001", "NSW"), Postcode("6000", "WA")>>,
     providerZones |->
        <<[key |-> "A", zones |-> <<ProviderZone("A", "Z", <<"6000", "2000", "2001">>)>>],
          [key |-> "B", zones |-> <<ProviderZone("B", "Y1", <<"2000">>),
                                    ProviderZone("B", "Y2", <<"2001">>)>>]>>,
     zoneRoutes |->
        <<[key |-> "A", routes |-> <<>>],
          [key |-> "B", routes |-> <<ProviderZoneRoute("B", "Y1", "Y2", 0, 0, 100, 5, 0)>>]>>,
     codes   |-> <<"2000", "2001", "6000">>,
     origins |-> {"2000"},
     dests   |-> {"2001", "2000"}]

\* "detour": one provider, a chain S -> X -> V -> W -> Y -> T of cheap legs with a dear
\* shortcut S -> V at its head and another W -> T at its tail; the zones on the shortcuts
\* lie in the state the search is heading for, the zones they bypass in the other one
Detour ==
    [name |-> "detour",
     postcodes |-> <<Postcode("6000", "WA"), Postcode("6001", "WA"), Postcode("6002", "WA"),
                     Postcode("4000", "QLD"), Postcode("4001", "QLD"), Postcode("4002", "QLD")>>,
     providerZones |->
        <<[key |-> "A",
           zones |-> <<ProviderZone("A", "S", <<"6000">>),
                       ProviderZone("A", "X", <<"6001">>),
                       ProviderZone("A", "V", <<"4001">>),
                       ProviderZone("A", "W", <<"6002">>),
                       ProviderZone("A", "Y", <<"4002">>),
                       ProviderZone("A", "T", <<"4000">>)>>]>>,
     zoneRoutes |->
        <<[key |-> "A",
           routes |-> <<ProviderZoneRoute("A", "S", "V", 0, 0, 100, 5, 0),
                        ProviderZoneRoute("A", "S", "X", 0, 0, 10, 5, 0),
                        ProviderZoneRoute("A", "X", "V", 0, 0, 10, 5, 0),
                        ProviderZoneRoute("A", "V", "W", 0, 0, 60, 5, 0),
                        ProviderZoneRoute("A", "W", "T", 0, 0, 100, 5, 0),
                        ProviderZoneRoute("A", "W", "Y", 0, 0, 10, 5, 0),
                        ProviderZoneRoute("A", "Y", "T", 0, 0, 10, 5, 0)>>]>>,
     codes   |-> <<"6000", "6001", "6002", "4000", "4001", "4002">>,
     origins |-> {"6000"},
     dests   |-> {"4000"}]

Scenarios == {Ladder, Fan, Hub, Shared, Detour}

ScenarioNamed(name) == CHOOSE sc \in Scenarios : sc.name = name

\* the arguments of the calls the model makes
Engines == {"bi", "uni"}

Entries == {"find_mltihop_path", "optimized_for_cost", "optimized_for_time",
            "optimize_multi_criteria"}

Weights == {10 * k : k \in 0..MaxWeightSteps}

MaxCosts == {Inf} \cup {50 + 100 * k : k \in 1..NumCostBounds}

MaxETDs == {Inf} \cup {24 * k : k \in 1..NumETDBounds}

MaxHopsChoices == {0, MaxHopsDefault}

TopKs == {0, 1, TopKMulti}

(***************************************************************************)
(* The state machine: one process holding one GraphIndex, serving one call *)
(* at a time.  A second call of the same engine, a cost calculation and an *)
(* index construction from raw entity lists are kept aside: they take part *)
(* only in the specifications defined after Spec.                          *)
(***************************************************************************)

VARIABLES
    scenario,        \* the name of the network the index was built from
    index,           \* the GraphIndex (and, as index.postcodes, the engine's postcodes dict)
    order,           \* the postcode codes in the order sets of vertices iterate in this process
    pc,              \* "idle", "forward", "backward", "merge", "uni", "done" or "raised"
    call,            \* the engine, the entry point and the arguments of the call being served
    search,          \* the locals of the search loop that is running
    forward_paths,   \* what the forward _astar_search returned
    backward_paths,  \* what the backward _astar_search returned
    all_paths,       \* the list _merge_paths returned
    result,          \* the list the entry point returned
    other,           \* the locals of a second call of the same engine, suspended or finished
    quote,           \* a route, a weight and what calculateCost returned for them
    built,           \* raw entity lists and the GraphIndex constructed from them
    beat             \* 0 or 1, flipped by every step the interpreter takes inside a call: it
                     \* tells a turn of a loop that changes no local from no step at all

aside == <<other, quote, built>>

vars == <<scenario, index, order, pc, call, search, forward_paths, backward_paths,
          all_paths, result, aside, beat>>

NoCall ==
    [engine |-> "", entry |-> "", originPC |-> "", destPC |-> "", weightKG |-> 0,
     maxCost |-> Inf, maxETD |-> Inf, maxHops |-> MaxHopsDefault, topK |-> 0]

\* the locals of a call that has not begun
NoContext ==
    [pc |-> "idle", call |-> NoCall, search |-> NoSearch, forward_paths |-> NoResult,
     backward_paths |-> NoResult, all_paths |-> <<>>, result |-> <<>>, beat |-> 0]

\* no cost has been asked for
NoQuote == [state |-> "none", route |-> <<>>, weightKG |-> 0, charge |-> 0]

\* no entity lists are at hand
NoBuild == [state |-> "none", postcodes |-> <<>>, providerZones |-> <<>>, zoneRoutes |-> <<>>, index |-> <<>>]

\* the entry points with the arguments each takes
CallArgs ==
    {[entry |-> "find_mltihop_path", maxCost |-> c, maxETD |-> e, maxHops |-> h, topK |-> k] :
        c \in MaxCosts, e \in MaxETDs, h \in MaxHopsChoices, k \in TopKs}
    \cup {[entry |-> "optimized_for_cost", maxCost |-> Inf, maxETD |-> e,
            maxHops |-> MaxHopsDefault, topK |-> 0] : e \in MaxETDs}
    \cup {[entry |-> "optimized_for_time", maxCost |-> c, maxETD |-> Inf,
            maxHops |-> MaxHopsDefault, topK |-> 0] : c \in MaxCosts}
    \cup {[entry |-> "optimize_multi_criteria", maxCost |-> Inf, maxETD |-> Inf,
            maxHops |-> MaxHopsDefault, topK |-> 0]}

TheCall(engine, a, originPC, destPC, weightKG) ==
    LET args == find_args(engine, a.entry, a.maxCost, a.maxETD, a.topK)
    IN  [engine |-> engine, entry |-> a.entry, originPC |-> originPC, destPC |-> destPC,
         weightKG |-> weightKG, maxCost |-> args.maxCost, maxETD |-> args.maxETD,
         maxHops |-> a.maxHops, topK |-> args.topK]

Init ==
    /\ scenario \in {sc.name : sc \in Scenarios}
    /\ index = LET sc == ScenarioNamed(scenario)
               IN  GraphIndex(sc.postcodes, sc.providerZones, sc.zoneRoutes)
    /\ order \in {ScenarioNamed(scenario).codes, Reverse(ScenarioNamed(scenario).codes)}
    /\ beat = 0
    /\ pc = "idle"
    /\ call = NoCall
    /\ search = NoSearch
    /\ forward_paths = NoResult
    /\ backward_paths = NoResult
    /\ all_paths = <<>>
    /\ result = <<>>
    /\ other = NoContext
    /\ quote = NoQuote
    /\ built = NoBuild

\* a validation that looks at the origin only
known_postcodes_origin_only(postcodes, originPC, destPC) == originPC \in DOMAIN postcodes

\* engine.py lines 53-57, engine_new.py lines 28-31: both postcodes are in self.postcodes
known_postcodes(postcodes, originPC, destPC) ==
    originPC \in DOMAIN postcodes /\ destPC \in DOMAIN postcodes

\* find_mltihop_path raises ValueError
CallUnknown(engine, a, originPC, destPC, weightKG) ==
    /\ pc = "idle"
    /\ ~known_postcodes(index.postcodes, originPC, destPC)
    /\ call' = TheCall(engine, a, originPC, destPC, weightKG)
    /\ pc' = "raised"
    /\ UNCHANGED <<beat, scenario, index, order, search, forward_paths, backward_paths,
                   all_paths, result, aside>>

\* BidirectionalAStarEngine.find_mltihop_path enters the forward _astar_search
CallBi(a, originPC, destPC, weightKG) ==
    /\ pc = "idle"
    /\ known_postcodes(index.postcodes, originPC, destPC)
    /\ call' = TheCall("bi", a, originPC, destPC, weightKG)
    /\ search' = astar_init(index, originPC, destPC)
    /\ pc' = "forward"
    /\ UNCHANGED <<beat, scenario, index, order, forward_paths, backward_paths, all_paths, result, aside>>

\* FreightAStarEngine.find_mltihop_path sets up its search
CallUni(a, originPC, destPC, weightKG) ==
    /\ pc = "idle"
    /\ known_postcodes(index.postcodes, originPC, destPC)
    /\ call' = TheCall("uni", a, originPC, destPC, weightKG)
    /\ search' = uni_init(index, originPC, destPC)
    /\ pc' = "uni"
    /\ UNCHANGED <<beat, scenario, index, order, forward_paths, backward_paths, all_paths, result, aside>>

\* RouteOptimizer.unoptimized: the fallback path, with no search and no validation;
\* the single path it returns is held as a list of one
CallUnoptimized(engine, originPC, destPC, weightKG) ==
    /\ pc = "idle"
    /\ call' = [NoCall EXCEPT !.engine = engine, !.entry = "unoptimized",
                              !.originPC = originPC, !.destPC = destPC,
                              !.weightKG = weightKG]
    /\ result' = <<IF engine = "bi" THEN create_default_path_bi(originPC, destPC)
                   ELSE create_default_path_uni>>
    /\ pc' = "done"
    /\ UNCHANGED <<beat, scenario, index, order, search, forward_paths, backward_paths, all_paths, aside>>

\* a turn of the loop that reverses, in place, the route lists of the index
AStarStep_reverses_routes ==
    /\ pc \in {"forward", "backward"}
    /\ search.open_set # {}
    /\ search' = astar_iteration(search, index, call.weightKG,
                                 IF pc = "forward" THEN call.destPC ELSE call.originPC,
                                 pc = "forward", call.maxCost, call.maxETD)
    /\ index' = [index EXCEPT !.zoneAdj = [k \in DOMAIN @ |-> Reverse(@[k])]]
    /\ beat' = 1 - beat
    /\ UNCHANGED <<scenario, order, pc, call, forward_paths, backward_paths,
                   all_paths, result, aside>>

\* one turn of the loop of _astar_search
AStarStep ==
    /\ pc \in {"forward", "backward"}
    /\ search.open_set # {}
    /\ search' = astar_iteration(search, index, call.weightKG,
                                 IF pc = "forward" THEN call.destPC ELSE call.originPC,
                                 pc = "forward", call.maxCost, call.maxETD)
    /\ beat' = 1 - beat
    /\ UNCHANGED <<scenario, index, order, pc, call, forward_paths, backward_paths,
                   all_paths, result, aside>>

\* engine.py lines 61-62: the forward search returns, the backward search starts
ForwardReturn ==
    /\ pc = "forward"
    /\ search.open_set = {}
    /\ forward_paths' = astar_result(search)
    /\ search' = astar_init(index, call.destPC, call.originPC)
    /\ pc' = "backward"
    /\ beat' = 1 - beat
    /\ UNCHANGED <<scenario, index, order, call, backward_paths, all_paths, result, aside>>

\* engine.py line 62: the backward search returns
BackwardReturn ==
    /\ pc = "backward"
    /\ search.open_set = {}
    /\ backward_paths' = astar_result(search)
    /\ search' = NoSearch
    /\ pc' = "merge"
    /\ beat' = 1 - beat
    /\ UNCHANGED <<scenario, index, order, call, forward_paths, all_paths, result, aside>>

\* a merge whose set of common vertices iterates the other way round once a
\* call has finished
MergeAndRank_order_drifts ==
    /\ pc = "merge"
    /\ all_paths' = merge_paths(call.originPC, call.destPC, forward_paths, backward_paths,
                                IF other.pc = "done" THEN Reverse(order) ELSE order)
    /\ result' = facade_result("bi", call.entry, rank_top_k(all_paths', call.topK))
    /\ pc' = "done"
    /\ beat' = 1 - beat
    /\ UNCHANGED <<scenario, index, order, call, search, forward_paths, backward_paths, aside>>

\* engine.py lines 65-69 and the RouteOptimizer method that made the call
MergeAndRank ==
    /\ pc = "merge"
    /\ all_paths' = merge_paths(call.originPC, call.destPC, forward_paths, backward_paths, order)
    /\ result' = facade_result("bi", call.entry, rank_top_k(all_paths', call.topK))
    /\ pc' = "done"
    /\ beat' = 1 - beat
    /\ UNCHANGED <<scenario, index, order, call, search, forward_paths, backward_paths, aside>>

\* a return that hands back whatever was found, even nothing
uni_return_as_found(found_paths) == found_paths

\* engine_new.py lines 82-85: the fallback path when nothing was found
uni_return(found_paths) ==
    IF found_paths = <<>> THEN <<create_default_path_uni>> ELSE found_paths

\* engine_new.py line 54: the vertex popped is the destination postcode
is_goal(node, destPC) == node[1] = "pc" /\ node[2] = destPC

\* engine_new.py lines 49-80: a turn of the loop that does not pop the destination
UniStep ==
    /\ pc = "uni"
    /\ search.open_set # {}
    /\ ~is_goal(HeapMin(search.open_set)[3], call.destPC)
    /\ search' = uni_iteration(search, index, call.weightKG, call.destPC,
                               call.maxCost, call.maxETD)
    /\ beat' = 1 - beat
    /\ UNCHANGED <<scenario, index, order, pc, call, forward_paths, backward_paths,
                   all_paths, result, aside>>

\* engine_new.py lines 54-57 and 85: the destination is popped, its path is returned
UniGoal ==
    /\ pc = "uni"
    /\ search.open_set # {}
    /\ is_goal(HeapMin(search.open_set)[3], call.destPC)
    /\ search' = [search EXCEPT
                     !.open_set = @ \ {HeapMin(search.open_set)},
                     !.found_paths = <<reconstruct_path(HeapMin(search.open_set)[3],
                                                        search.came_from, search.edge_data)>>]
    /\ result' = facade_result("uni", call.entry, uni_return(search'.found_paths))
    /\ pc' = "done"
    /\ beat' = 1 - beat
    /\ UNCHANGED <<scenario, index, order, call, forward_paths, backward_paths, all_paths, aside>>

\* engine_new.py lines 82-83: the queue is empty, the fallback path is returned
UniExhausted ==
    /\ pc = "uni"
    /\ search.open_set = {}
    /\ result' = facade_result("uni", call.entry, uni_return(search.found_paths))
    /\ pc' = "done"
    /\ beat' = 1 - beat
    /\ UNCHANGED <<scenario, index, order, call, search, forward_paths, backward_paths,
                   all_paths, aside>>

\* the caller has the list (or the error); the locals of the call are gone
Return ==
    /\ pc \in {"done", "raised"}
    /\ pc' = "idle"
    /\ call' = NoCall
    /\ search' = NoSearch
    /\ forward_paths' = NoResult
    /\ backward_paths' = NoResult
    /\ all_paths' = <<>>
    /\ result' = <<>>
    /\ beat' = 0
    /\ UNCHANGED <<scenario, index, order, aside>>

Next ==
    \/ \E engine \in Engines, a \in CallArgs, originPC \in ScenarioNamed(scenario).origins,
          destPC \in ScenarioNamed(scenario).dests, weightKG \in Weights :
          CallUnknown(engine, a, originPC, destPC, weightKG)
    \/ \E a \in CallArgs, originPC \in ScenarioNamed(scenario).origins,
          destPC \in ScenarioNamed(scenario).dests, weightKG \in Weights :
          CallBi(a, originPC, destPC, weightKG)
    \/ \E a \in CallArgs, originPC \in ScenarioNamed(scenario).origins,
          destPC \in ScenarioNamed(scenario).dests, weightKG \in Weights :
          CallUni(a, originPC, destPC, weightKG)
    \/ \E engine \in Engines, originPC \in ScenarioNamed(scenario).origins,
          destPC \in ScenarioNamed(scenario).dests, weightKG \in Weights :
          CallUnoptimized(engine, originPC, destPC, weightKG)
    \/ AStarStep
    \/ ForwardReturn
    \/ BackwardReturn
    \/ MergeAndRank
    \/ UniStep
    \/ UniGoal
    \/ UniExhausted
    \/ Return

Spec == Init /\ [][Next]_vars

\* the interpreter takes a step of the call that is under way; every step of a call
\* flips beat, so this is a step of AStarStep, ForwardReturn, BackwardReturn,
\* MergeAndRank, UniStep, UniGoal or UniExhausted
CallSteps == pc \in {"forward", "backward", "merge", "uni"} /\ beat' = 1 - beat

\* a call that has been made is run on, step after step: nothing suspends the interpreter
SpecLive == Init /\ [][Next]_vars /\ WF_beat(CallSteps)

(***************************************************************************)
(* Two calls of the same engine on the same GraphIndex, one after the      *)
(* other or interleaved step by step: the running call is held in pc,      *)
(* call, search, ... as before, the other call's locals in other.          *)
(***************************************************************************)

\* a set of visited vertices kept by the engine and seen by both calls
resumed_search_shared_visited(saved, running) == [saved EXCEPT !.visited = running.visited]

\* engine.py lines 79-96, engine_new.py lines 35-47: the queue, the maps and the
\* visited set are locals of the call; a call that resumes finds them as it left them
resumed_search(saved, running) == saved

\* the scheduler leaves the running call and takes up the other one
Switch ==
    /\ pc # "idle" \/ other.pc # "idle"
    /\ other' = [pc |-> pc, call |-> call, search |-> search,
                 forward_paths |-> forward_paths, backward_paths |-> backward_paths,
                 all_paths |-> all_paths, result |-> result, beat |-> beat]
    /\ pc' = other.pc
    /\ call' = other.call
    /\ search' = resumed_search(other.search, search)
    /\ forward_paths' = other.forward_paths
    /\ backward_paths' = other.backward_paths
    /\ all_paths' = other.all_paths
    /\ result' = other.result
    /\ beat' = other.beat
    /\ UNCHANGED <<scenario, index, order, quote, built>>

\* the queries the two calls are drawn from
TwoCallArgs ==
    {a \in CallArgs : /\ a.entry = "find_mltihop_path"
                      /\ a.maxCost = Inf /\ a.maxETD = Inf
                      /\ a.maxHops = MaxHopsDefault /\ a.topK = TopKMulti}

TwoCallWeights == Weights

\* both calls are made on one engine
SameEngine(engine) == other.call.engine \in {"", engine}

NextTwoCalls ==
    \/ \E engine \in Engines, a \in TwoCallArgs, originPC \in ScenarioNamed(scenario).origins,
          destPC \in ScenarioNamed(scenario).dests, weightKG \in TwoCallWeights :
          SameEngine(engine) /\ CallUnknown(engine, a, originPC, destPC, weightKG)
    \/ \E a \in TwoCallArgs, originPC \in ScenarioNamed(scenario).origins,
          destPC \in ScenarioNamed(scenario).dests, weightKG \in TwoCallWeights :
          SameEngine("bi") /\ CallBi(a, originPC, destPC, weightKG)
    \/ \E a \in TwoCallArgs, originPC \in ScenarioNamed(scenario).origins,
          destPC \in ScenarioNamed(scenario).dests, weightKG \in TwoCallWeights :
          SameEngine("uni") /\ CallUni(a, originPC, destPC, weightKG)
    \/ AStarStep
    \/ ForwardReturn
    \/ BackwardReturn
    \/ MergeAndRank
    \/ UniStep
    \/ UniGoal
    \/ UniExhausted
    \/ Switch

SpecTwoCalls == Init /\ [][NextTwoCalls]_vars

(***************************************************************************)
(* The cost calculation on its own: a route and a weight are drawn, and    *)
(* ProviderZoneRoute.calculateCost prices them.  Charges are multiples of  *)
(* 100 milli-dollars, so a whole percentage of a charge is a whole number. *)
(***************************************************************************)

MaxLevySteps == 2
MaxQuoteWeightSteps == 3

QuoteBaseCharges == {0, 15000}
QuoteRates == {0, 500}
QuoteMinCharges == {2000, 100000}
QuoteLevies == {10 * k : k \in 0..MaxLevySteps}
QuoteWeights == {100 * (k - 1) : k \in 0..MaxQuoteWeightSteps}

QuoteRoutes ==
    {ProviderZoneRoute("A", "Z1", "Z2", b, r, m, 8, l) :
        b \in QuoteBaseCharges, r \in QuoteRates, m \in QuoteMinCharges, l \in QuoteLevies}

InitCost ==
    /\ scenario = Hub.name
    /\ index = GraphIndex(Hub.postcodes, Hub.providerZones, Hub.zoneRoutes)
    /\ order = Hub.codes
    /\ beat = 0
    /\ pc = "idle"
    /\ call = NoCall
    /\ search = NoSearch
    /\ forward_paths = NoResult
    /\ backward_paths = NoResult
    /\ all_paths = <<>>
    /\ result = <<>>
    /\ other = NoContext
    /\ built = NoBuild
    /\ \E rt \in QuoteRoutes, w \in QuoteWeights :
          quote = [state |-> "asked", route |-> rt, weightKG |-> w, charge |-> 0]

\* route.calculateCost(weightKG)
Quote ==
    /\ quote.state = "asked"
    /\ quote' = [quote EXCEPT !.state = "charged",
                              !.charge = calculateCost(quote.route, quote.weightKG)]
    /\ UNCHANGED <<beat, scenario, index, order, pc, call, search, forward_paths, backward_paths,
                   all_paths, result, other, built>>

NextCost == Quote

SpecCost == InitCost /\ [][NextCost]_vars

(***************************************************************************)
(* The construction of a GraphIndex on its own: entity lists in which an   *)
(* identity key may occur more than once are drawn, and GraphIndex(...)    *)
(* is built from them.                                                     *)
(***************************************************************************)

MaxEntities == 2

SeqsUpTo(S, n) == UNION {[1..k -> S] : k \in 0..n}

BuildPostcodes == {Postcode("2000", "NSW"), Postcode("2000", "VIC")}

BuildZones ==
    {ProviderZone("A", "Z1", <<"2000">>), ProviderZone("A", "Z1", <<"2001">>),
     ProviderZone("A", "Z2", <<"2001">>)}

BuildRoutes ==
    {ProviderZoneRoute("A", "Z1", "Z2", 0, 0, 100, 8, 0),
     ProviderZoneRoute("A", "Z1", "Z2", 0, 0, 200, 8, 0),
     ProviderZoneRoute("A", "Z2", "Z1", 0, 0, 100, 8, 0)}

InitBuild ==
    /\ scenario = Hub.name
    /\ index = GraphIndex(Hub.postcodes, Hub.providerZones, Hub.zoneRoutes)
    /\ order = Hub.codes
    /\ beat = 0
    /\ pc = "idle"
    /\ call = NoCall
    /\ search = NoSearch
    /\ forward_paths = NoResult
    /\ backward_paths = NoResult
    /\ all_paths = <<>>
    /\ result = <<>>
    /\ other = NoContext
    /\ quote = NoQuote
    /\ \E ps \in SeqsUpTo(BuildPostcodes, MaxEntities), zs \in SeqsUpTo(BuildZones, MaxEntities),
          rs \in SeqsUpTo(BuildRoutes, MaxEntities) :
          built = [state |-> "given", postcodes |-> ps,
                   providerZones |-> <<[key |-> "A", zones |-> zs]>>,
                   zoneRoutes |-> <<[key |-> "A", routes |-> rs]>>,
                   index |-> <<>>]

\* GraphIndex(postcodes, providerZones, zoneRoutes)
Build ==
    /\ built.state = "given"
    /\ built' = [built EXCEPT !.state = "built",
                              !.index = GraphIndex(built.postcodes, built.providerZones, built.zoneRoutes)]
    /\ UNCHANGED <<beat, scenario, index, order, pc, call, search, forward_paths, backward_paths,
                   all_paths, result, other, quote>>

NextBuild == Build

SpecBuild == InitBuild /\ [][NextBuild]_vars

(***************************************************************************)
(* Reference quantities the properties compare the engines against.        *)
(***************************************************************************)

\* the cheapest way from every reachable vertex of the two-layer graph, by
\* relaxing edges until nothing improves (no heuristic, no early stop)
RECURSIVE Settle(_, _, _)
Settle(ix, weightKG, dist) ==
    LET better == UNION {{<<u, i>> : i \in {j \in DOMAIN get_forward_neighbors(ix, u, weightKG) :
                                dist[u] + get_forward_neighbors(ix, u, weightKG)[j].cost
                                  < Get(dist, get_forward_neighbors(ix, u, weightKG)[j].node, Inf)}}
                         : u \in DOMAIN dist}
    IN IF better = {} THEN dist
       ELSE LET b  == CHOOSE x \in better : TRUE
                nb == get_forward_neighbors(ix, b[1], weightKG)[b[2]]
            IN Settle(ix, weightKG, Put(dist, nb.node, dist[b[1]] + nb.cost))

RECURSIVE SettleWithin(_, _, _, _)
\* as Settle, along the edges whose time is at most maxETD only
SettleWithin(ix, weightKG, maxETD, dist) ==
    LET better == UNION {{<<u, i>> : i \in {j \in DOMAIN get_forward_neighbors(ix, u, weightKG) :
                                /\ get_forward_neighbors(ix, u, weightKG)[j].etd <= maxETD
                                /\ dist[u] + get_forward_neighbors(ix, u, weightKG)[j].cost
                                     < Get(dist, get_forward_neighbors(ix, u, weightKG)[j].node, Inf)}}
                         : u \in DOMAIN dist}
    IN IF better = {} THEN dist
       ELSE LET b  == CHOOSE x \in better : TRUE
                nb == get_forward_neighbors(ix, b[1], weightKG)[b[2]]
            IN SettleWithin(ix, weightKG, maxETD, Put(dist, nb.node, dist[b[1]] + nb.cost))

\* the graph holds a path from origin to destination of total cost <= maxCost whose every
\* edge takes at most maxETD
ViablePathExists ==
    LET d == SettleWithin(index, call.weightKG, call.maxETD, (PCNode(call.originPC) :> 0))
    IN  PCNode(call.destPC) \in DOMAIN d /\ d[PCNode(call.destPC)] <= call.maxCost

\* the minimum total cost of a path from the origin postcode to the destination
MinPathCost ==
    Get(Settle(index, call.weightKG, (PCNode(call.originPC) :> 0)), PCNode(call.destPC), Inf)

\* the forward or backward _astar_search of the bidirectional engine, run to its end
RECURSIVE search_to_end(_, _, _, _, _, _, _)
search_to_end(s, ix, weightKG, goalPC, forward, maxCost, maxETD) ==
    IF s.open_set = {} THEN s
    ELSE search_to_end(astar_iteration(s, ix, weightKG, goalPC, forward, maxCost, maxETD),
                       ix, weightKG, goalPC, forward, maxCost, maxETD)

\* the loop of the unidirectional engine, run to its end
RECURSIVE uni_to_end(_, _, _, _, _, _)
uni_to_end(s, ix, weightKG, destPC, maxCost, maxETD) ==
    IF s.open_set = {} THEN uni_return(s.found_paths)
    ELSE IF is_goal(HeapMin(s.open_set)[3], destPC)
         THEN <<reconstruct_path(HeapMin(s.open_set)[3], s.came_from, s.edge_data)>>
         ELSE uni_to_end(uni_iteration(s, ix, weightKG, destPC, maxCost, maxETD),
                         ix, weightKG, destPC, maxCost, maxETD)

\* what the call c returns when nothing else runs: the whole call in one piece
RunAlone(c) ==
    IF ~(c.originPC \in DOMAIN index.postcodes /\ c.destPC \in DOMAIN index.postcodes)
    THEN <<>>
    ELSE IF c.engine = "bi"
    THEN LET fwd == astar_result(search_to_end(astar_init(index, c.originPC, c.destPC), index,
                                               c.weightKG, c.destPC, TRUE, c.maxCost, c.maxETD))
             bwd == astar_result(search_to_end(astar_init(index, c.destPC, c.originPC), index,
                                               c.weightKG, c.originPC, FALSE, c.maxCost, c.maxETD))
             merged == merge_paths(c.originPC, c.destPC, fwd, bwd, order)
         IN  facade_result("bi", c.entry, rank_top_k(merged, c.topK))
    ELSE facade_result("uni", c.entry,
                       uni_to_end(uni_init(index, c.originPC, c.destPC), index, c.weightKG,
                                  c.destPC, c.maxCost, c.maxETD))

Finished(p) == p \in {"done", "raised"}

Returned == pc = "done" /\ call.entry # "unoptimized"

BothKnown == call.originPC \in DOMAIN index.postcodes /\ call.destPC \in DOMAIN index.postcodes

Unbounded == call.maxCost = Inf /\ call.maxETD = Inf

IsFallback(path) == path.totalCost = Inf /\ path.totalETD = Inf /\ path.segments = <<>>

\* the two searches of the bidirectional engine share no postcode vertex
NoCommonPostcode ==
    {n \in DOMAIN forward_paths.cost \cap DOMAIN backward_paths.cost : n[1] = "pc"} = {}

(***************************************************************************)
(* Properties.                                                             *)
(***************************************************************************)

\* C1: a call of find_mltihop_path (directly or through an optimized facade
\* entry) whose origin or destination postcode is not in the postcode table
\* raises the error, in both engines and for every maxCost, maxETD, maxHops
\* and topK, and no search state has been created when it does.
C1_UnknownLocationRaises ==
    (pc # "idle" /\ call.entry # "unoptimized" /\ ~BothKnown)
        => /\ pc = "raised"
           /\ search = NoSearch
           /\ forward_paths = NoResult
           /\ backward_paths = NoResult
           /\ all_paths = <<>>
           /\ result = <<>>

C1_Witness ==
    /\ pc = "raised"
    /\ call.engine = "uni"
    /\ call.originPC \in DOMAIN index.postcodes
    /\ call.destPC \notin DOMAIN index.postcodes

\* C2 (as stated): for known postcodes the returned list is non-empty for
\* every maxCost, maxETD, maxHops and topK, in both engines.
C2_NonEmptyForEveryTopK ==
    (Returned /\ BothKnown) => Len(result) >= 1

\* C2 (amended): for known postcodes the returned list is non-empty in the
\* unidirectional engine, and in the bidirectional engine whenever topK >= 1.
C2_NonEmptyForPositiveTopK ==
    (Returned /\ BothKnown /\ (call.engine = "uni" \/ call.topK >= 1)) => Len(result) >= 1

C2_Witness ==
    /\ Returned
    /\ call.engine = "bi"
    /\ call.topK = 1
    /\ Len(result) = 1
    /\ result[1].totalCost < Inf

\* C3 (as stated): when the search finds no connecting path (unidirectional:
\* the queue empties with nothing found; bidirectional: the two searches
\* share no postcode vertex) the call returns exactly one path, of infinite
\* cost and time and without segments.
C3_FallbackWhenNoPath ==
    (Returned /\ (\/ call.engine = "uni" /\ search.found_paths = <<>>
                  \/ call.engine = "bi" /\ NoCommonPostcode))
        => Len(result) = 1 /\ IsFallback(result[1])

\* C3 (amended): the same, in the bidirectional engine for topK >= 1.
C3_FallbackWhenNoPathPositiveTopK ==
    (Returned /\ (\/ call.engine = "uni" /\ search.found_paths = <<>>
                  \/ call.engine = "bi" /\ NoCommonPostcode /\ call.topK >= 1))
        => Len(result) = 1 /\ IsFallback(result[1])

C3_Witness ==
    /\ Returned
    /\ call.engine = "bi"
    /\ call.topK >= 1
    /\ NoCommonPostcode
    /\ Len(result) = 1
    /\ IsFallback(result[1])

\* C4: with maxCost and maxETD unbounded and a connecting path in the graph,
\* the single path the unidirectional engine returns has the minimum total
\* cost over all paths from the origin to the destination.
C4_UniReturnsMinimumCost ==
    (Returned /\ call.engine = "uni" /\ Unbounded /\ BothKnown /\ MinPathCost < Inf)
        => Len(result) = 1 /\ result[1].totalCost = MinPathCost

\* C5: with maxCost and maxETD unbounded, topK >= 1 and a connecting path in
\* the graph, the first path the bidirectional engine returns has the minimum
\* total cost over all paths from the origin to the destination.
C5_BiFirstIsMinimumCost ==
    (Returned /\ call.engine = "bi" /\ call.entry \in {"find_mltihop_path", "optimized_for_cost"}
       /\ Unbounded /\ call.topK >= 1 /\ BothKnown /\ MinPathCost < Inf)
        => Len(result) >= 1 /\ result[1].totalCost = MinPathCost

\* C6: no segment of a path returned by find_mltihop_path or
\* optimized_for_cost has a delivery time above maxETD, in both engines.
C6_SegmentsWithinMaxETD ==
    (Returned /\ call.entry \in {"find_mltihop_path", "optimized_for_cost"})
        => \A i \in DOMAIN result : \A j \in DOMAIN result[i].segments :
               result[i].segments[j].etd <= call.maxETD

\* C7: every path returned by find_mltihop_path or optimized_for_time other
\* than the fallback path has a total cost of at most maxCost, in both engines.
C7_TotalCostWithinMaxCost ==
    (Returned /\ call.entry \in {"find_mltihop_path", "optimized_for_time"})
        => \A i \in DOMAIN result :
               IsFallback(result[i]) \/ result[i].totalCost <= call.maxCost

\* C8: the list returned by find_mltihop_path or optimized_for_cost is in
\* non-decreasing order of total cost, in both engines.
C8_SortedByCost ==
    (Returned /\ call.entry \in {"find_mltihop_path", "optimized_for_cost"})
        => \A i \in DOMAIN result : \A j \in DOMAIN result :
               i < j => result[i].totalCost <= result[j].totalCost

C8_Witness ==
    /\ Returned
    /\ call.entry = "find_mltihop_path"
    /\ Len(result) >= 3
    /\ result[1].totalCost < result[Len(result)].totalCost

\* C9: the list optimized_for_time returns is in ascending order of total
\* time and its first path is the fastest of all candidate paths the search
\* produced (bidirectional: every merged meeting-point path).
C9_FirstIsFastestCandidate ==
    (Returned /\ call.entry = "optimized_for_time")
        => /\ \A i \in DOMAIN result : \A j \in DOMAIN result :
                  i < j => result[i].totalETD <= result[j].totalETD
           /\ call.engine = "bi" =>
                  /\ Len(result) >= 1
                  /\ \A k \in DOMAIN all_paths : result[1].totalETD <= all_paths[k].totalETD

\* C10: the paths optimize_multi_criteria returns carry the ranks 1..N in
\* list order and their composite scores do not increase along the list, in
\* both facades.
C10_RankedByScore ==
    (Returned /\ call.entry = "optimize_multi_criteria")
        => /\ \A i \in DOMAIN result : result[i].rank = i
           /\ \A i \in DOMAIN result : \A j \in DOMAIN result :
                  i < j => result[i].totScore >= result[j].totScore

C12_InterleavedAsAlone ==
    /\ Finished(pc) => result = RunAlone(call)
    /\ Finished(other.pc) => other.result = RunAlone(other.call)

C12_Witness ==
    /\ pc = "done"
    /\ call.engine = "bi"
    /\ Len(result) >= 1 /\ result[1].totalCost < Inf
    /\ other.pc \in {"forward", "backward"}
    /\ other.search.visited # {}
    /\ other.call # call
    /\ result = RunAlone(call)

\* C13: each of the four RouteOptimizer entry points (unoptimized,
\* optimized_for_cost, optimized_for_time, optimize_multi_criteria) raises the
\* unknown-location error, and returns no path, when the origin or the
\* destination postcode is not in the index.
C13_EveryFacadeEntryRaises ==
    (pc # "idle" /\ call.entry # "find_mltihop_path" /\ ~BothKnown)
        => pc = "raised" /\ result = <<>>

\* origin and destination are members of one zone of one provider
SameZone(originPC, destPC) ==
    \E key \in DOMAIN index.zoneToPCs :
        originPC \in Range(index.zoneToPCs[key]) /\ destPC \in Range(index.zoneToPCs[key])

\* C14: when origin and destination lie in one zone (origin = destination included), the
\* first path either engine returns has totalCost 0, no transit segment and numHops 0
C14_SameZoneCostsNothing ==
    (Returned /\ call.entry = "find_mltihop_path" /\ SameZone(call.originPC, call.destPC) /\ Len(result) >= 1)
        => /\ result[1].totalCost = 0
           /\ result[1].numHops = 0
           /\ \A i \in DOMAIN result[1].segments : result[1].segments[i].providerId = None

\* the charge before the levy, as the claims write it
ChargeBeforeLevy(route, weightKG) ==
    IF weightKG > 0
    THEN Max(route.baseCharge + weightKG * route.perKGRate, route.minCharge)
    ELSE route.minCharge

\* C15 as stated: for every route and weight calculateCost returns c + c * fuelLevyPct / 100,
\* with c = max(baseCharge + weightKG * perKGRate, minCharge) when weightKG > 0 and
\* c = minCharge otherwise; 15 + 100 * 0.5 with minimum 2 and no levy gives 65
C15_CostFormula ==
    quote.state = "charged" =>
        LET c == ChargeBeforeLevy(quote.route, quote.weightKG)
        IN  100 * quote.charge = 100 * c + c * quote.route.fuelLevyPct

\* C15 amended: calculateCost returns c + c * fuelLevyPct / 100 with
\* c = max(baseCharge + weightKG * perKGRate, minCharge) when weightKG > 0, and returns
\* minCharge with no levy added when weightKG <= 0; the example gives 65
C15_CostFormulaLevyAboveZero ==
    quote.state = "charged" =>
        LET c == ChargeBeforeLevy(quote.route, quote.weightKG)
        IN  /\ quote.weightKG > 0 => 100 * quote.charge = 100 * c + c * quote.route.fuelLevyPct
            /\ quote.weightKG <= 0 => quote.charge = quote.route.minCharge
            /\ (/\ quote.route.baseCharge = 15000 /\ quote.route.perKGRate = 500
                /\ quote.route.minCharge = 2000 /\ quote.route.fuelLevyPct = 0
                /\ quote.weightKG = 100) => quote.charge = 65000

C15_Witness ==
    /\ quote.state = "charged"
    /\ quote.weightKG = 100
    /\ quote.route.baseCharge = 15000 /\ quote.route.perKGRate = 500
    /\ quote.route.minCharge = 2000 /\ quote.route.fuelLevyPct = 10
    /\ quote.charge = 71500

\* the transit edges the running search has recorded, as (route, cost) pairs
TransitEdges ==
    {<<IF call.engine = "bi" THEN search.edge_data[n].route.route[1]
                             ELSE search.edge_data[n].info.route[1],
       search.edge_data[n].cost>> :
        n \in {m \in DOMAIN search.edge_data :
                 IF call.engine = "bi" THEN search.edge_data[m].route.type = "zone_route"
                                       ELSE search.edge_data[m].info.type = "transit"}}

\* C16: for a shipment of weight 0, the cost of every transit edge either engine derives
\* from a route is that route's minCharge exactly, whatever its baseCharge, perKGRate and
\* fuelLevyPct are
C16_WeightlessPaysMinCharge ==
    (pc \in {"forward", "backward", "merge", "uni", "done"} /\ call.weightKG = 0)
        => \A e \in TransitEdges : e[2] = e[1].minCharge

C16_Witness ==
    /\ pc \in {"forward", "backward", "uni"}
    /\ call.weightKG = 0
    /\ \E e \in TransitEdges :
          /\ e[1].baseCharge > 0 /\ e[1].perKGRate > 0 /\ e[1].fuelLevyPct > 0
          /\ e[2] = e[1].minCharge

\* the priced weight is above the minimum-charge regime of the priced route
AboveMinimum == quote.route.baseCharge + quote.weightKG * quote.route.perKGRate > quote.route.minCharge

\* C17 as stated: for two weights w1 < w2 with baseCharge + w1 * perKGRate > minCharge the
\* cost at w1 is below the cost at w2, and at a fixed weight in that regime a larger
\* fuelLevyPct gives a larger cost
C17_CostGrows ==
    (quote.state = "charged" /\ AboveMinimum) =>
        /\ \A w2 \in QuoteWeights :
              quote.weightKG < w2 => quote.charge < calculateCost(quote.route, w2)
        /\ \A l \in QuoteLevies :
              quote.route.fuelLevyPct < l
                 => quote.charge < calculateCost([quote.route EXCEPT !.fuelLevyPct = l], quote.weightKG)

\* C17 amended: on a route with perKGRate > 0, for two weights w1 < w2 with w2 > 0 and
\* baseCharge + w1 * perKGRate > minCharge the cost at w1 is below the cost at w2; and at a
\* fixed weight > 0 in that regime a larger fuelLevyPct gives a larger cost
C17_CostGrowsAboveZero ==
    (quote.state = "charged" /\ AboveMinimum) =>
        /\ \A w2 \in QuoteWeights :
              (quote.weightKG < w2 /\ w2 > 0 /\ quote.route.perKGRate > 0)
                 => quote.charge < calculateCost(quote.route, w2)
        /\ \A l \in QuoteLevies :
              (quote.route.fuelLevyPct < l /\ quote.weightKG > 0)
                 => quote.charge < calculateCost([quote.route EXCEPT !.fuelLevyPct = l], quote.weightKG)

C17_Witness ==
    /\ quote.state = "charged"
    /\ AboveMinimum
    /\ quote.weightKG > 0
    /\ quote.route.perKGRate > 0
    /\ \E w2 \in QuoteWeights : quote.weightKG < w2 /\ quote.charge < calculateCost(quote.route, w2)
    /\ \E l \in QuoteLevies :
          /\ quote.route.fuelLevyPct < l
          /\ quote.charge < calculateCost([quote.route EXCEPT !.fuelLevyPct = l], quote.weightKG)

\* the identity keys of the entities
RouteKey(route) == <<route.providerId, route.fromZone, route.toZone>>
ZoneKey(z) == <<z.providerId, z.zone.zoneCode>>

\* entry i of a list is the last one of its key
LastOfKey(list, i, Key(_)) == \A j \in DOMAIN list : j > i => Key(list[j]) # Key(list[i])

\* a list of routes shows, once each, only routes that are the last of their key in the input
OnlyLastRoutes(shown, given) ==
    /\ \A i, j \in DOMAIN shown : i # j => RouteKey(shown[i]) # RouteKey(shown[j])
    /\ \A i \in DOMAIN shown :
          \E k \in DOMAIN given : given[k] = shown[i] /\ LastOfKey(given, k, RouteKey)

BuiltZoneCodes == {"Z1", "Z2"}
BuiltCodes == {"2000", "2001"}

PostcodesLastWins ==
    \A i \in DOMAIN built.postcodes :
        LET Code(p) == p.code
        IN  LastOfKey(built.postcodes, i, Code)
               => built.index.postcodes[built.postcodes[i].code] = built.postcodes[i]

PostcodesForZoneLastWins ==
    LET given == AllZones(built.providerZones)
    IN  \A i \in DOMAIN given :
           LastOfKey(given, i, ZoneKey)
              => get_PostcodesForZone(built.index, given[i].providerId, given[i].zone.zoneCode)
                    = given[i].zone.postcodes

ZonesForPostcodeLastWins ==
    LET given == AllZones(built.providerZones)
    IN  \A code \in BuiltCodes :
           LET shown == get_ZonesForPostcode(built.index, code)
           IN  /\ \A i, j \in DOMAIN shown : i # j => shown[i] # shown[j]
               /\ \A i \in DOMAIN shown :
                     \E k \in DOMAIN given :
                        /\ ZoneKey(given[k]) = shown[i]
                        /\ LastOfKey(given, k, ZoneKey)
                        /\ code \in Range(given[k].zone.postcodes)

RoutesLastWins ==
    LET given == AllRoutes(built.zoneRoutes)
    IN  \A z \in BuiltZoneCodes :
           /\ OnlyLastRoutes(get_OutgoingRoutes(built.index, "A", z), given)
           /\ OnlyLastRoutes(get_IncomingRoutes(built.index, "A", z), given)

\* C18: building a GraphIndex from input with repeated identity keys never fails, and of
\* two postcodes of one code, two zones of one (providerId, zoneCode) or two routes of one
\* (providerId, fromZone, toZone) only the last is visible through outgoing routes,
\* incoming routes, zones-for-postcode and postcodes-for-zone
C18_LastWriteWins ==
    built.state = "built" =>
        /\ PostcodesLastWins
        /\ PostcodesForZoneLastWins
        /\ ZonesForPostcodeLastWins
        /\ RoutesLastWins

\* the index as GraphIndex(...) built it from the entities of the network
AsConstructed ==
    LET sc == ScenarioNamed(scenario)
    IN  GraphIndex(sc.postcodes, sc.providerZones, sc.zoneRoutes)

\* C19: no search or ranking operation of either engine or of a RouteOptimizer policy
\* changes the GraphIndex: after any sequence of queries its four lookup maps, and so the
\* lists the four query methods return, hold the same contents in the same order as
\* right after construction
C19_IndexNeverChanges ==
    /\ index = AsConstructed
    /\ \A key \in DOMAIN AsConstructed.zoneAdj :
          get_OutgoingRoutes(index, key[1], key[2]) = AsConstructed.zoneAdj[key]
    /\ \A key \in DOMAIN AsConstructed.revZoneAdj :
          get_IncomingRoutes(index, key[1], key[2]) = AsConstructed.revZoneAdj[key]
    /\ \A code \in DOMAIN AsConstructed.pcToZones :
          get_ZonesForPostcode(index, code) = AsConstructed.pcToZones[code]
    /\ \A key \in DOMAIN AsConstructed.zoneToPCs :
          get_PostcodesForZone(index, key[1], key[2]) = AsConstructed.zoneToPCs[key]

C19_Witness ==
    /\ pc = "done"
    /\ call.entry = "optimize_multi_criteria"
    /\ Len(result) >= 2
    /\ \E key \in DOMAIN index.zoneAdj : Len(index.zoneAdj[key]) >= 2
    /\ index = AsConstructed

\* the graph has the edge a -> b: a postcode into a zone that lists it, a zone to a zone
\* of the same provider along one of its routes, or a zone out to a postcode it lists
Linked(a, b) ==
    /\ a[1] = "pz" \/ b[1] = "pz"
    /\ (a[1] = "pz" /\ b[1] = "pz")
          => /\ a[3] = b[3]
             /\ \E r \in Range(get_OutgoingRoutes(index, a[3], a[2])) : r.toZone = b[2]
    /\ (a[1] = "pz" /\ b[1] = "pc") => b[2] \in Range(get_PostcodesForZone(index, a[3], a[2]))
    /\ (a[1] = "pc" /\ b[1] = "pz") => a[2] \in Range(get_PostcodesForZone(index, b[3], b[2]))

\* C20: in every path either engine returns, a zone vertex of provider P is followed only
\* by a zone vertex of P or by a postcode vertex, and the provider changes only through a
\* postcode vertex that is a member of a zone of each of the two providers; during the
\* search, zones of one zoneCode under different providers stay different vertices, each
\* reached only along edges of its own provider
C20_ProvidersMeetAtPostcodes ==
    /\ pc = "done" =>
          \A k \in DOMAIN result :
             ~IsFallback(result[k]) =>
                \A i \in 1..(Len(result[k].nodes) - 1) :
                   Linked(result[k].nodes[i], result[k].nodes[i + 1])
    /\ pc \in {"forward", "uni"} =>
          \A n \in DOMAIN search.came_from : Linked(search.came_from[n], n)
    /\ pc = "backward" =>
          \A n \in DOMAIN search.came_from : Linked(n, search.came_from[n])

C20_Witness ==
    /\ pc = "done"
    /\ Len(result) >= 1
    /\ Len(result[1].providersInvolved) = 2
    /\ \E i, j \in DOMAIN result[1].nodes :
          /\ i < j
          /\ result[1].nodes[i] = <<"pz", "Z1", "A">>
          /\ result[1].nodes[j] = <<"pz", "Z1", "B">>
    /\ \A i \in 1..(Len(result[1].nodes) - 1) : Linked(result[1].nodes[i], result[1].nodes[i + 1])

\* the same call, served by the bidirectional engine
SameCallBi == RunAlone([call EXCEPT !.engine = "bi"])

\* C21: for every index and shipment with unbounded thresholds the two engines are
\* interchangeable: the unidirectional engine returns the fallback path exactly when the
\* bidirectional engine does, and otherwise the totalCost of its result equals the
\* totalCost of the first path of the bidirectional result
C21_EnginesInterchangeable ==
    (Returned /\ call.engine = "uni" /\ call.entry = "find_mltihop_path" /\ Unbounded
       /\ BothKnown /\ call.topK >= 1)
        => /\ Len(result) >= 1 /\ Len(SameCallBi) >= 1
           /\ IsFallback(result[1]) <=> IsFallback(SameCallBi[1])
           /\ result[1].totalCost = SameCallBi[1].totalCost

\* C22: when the graph holds a path from the origin to the destination whose total cost is
\* <= maxCost and whose every edge time is <= maxETD, find_mltihop_path of either engine
\* returns a finite-cost path, not the fallback
C22_ViablePathIsFound ==
    (Returned /\ call.entry = "find_mltihop_path" /\ BothKnown /\ call.topK >= 1
       /\ ViablePathExists)
        => Len(result) >= 1 /\ ~IsFallback(result[1]) /\ result[1].totalCost < Inf

\* the transit legs of a node sequence, in travel order, as (providerId, fromZone, toZone)
RECURSIVE TransitLegs(_)
TransitLegs(nodes) ==
    IF Len(nodes) < 2 THEN <<>>
    ELSE (IF nodes[1][1] = "pz" /\ nodes[2][1] = "pz"
          THEN <<(<<nodes[1][3], nodes[1][2], nodes[2][2]>>)>> ELSE <<>>)
         \o TransitLegs(Tail(nodes))

\* the segments of a path that a route backs, in list order, as (providerId, fromZone, toZone)
RECURSIVE RouteSegments(_)
RouteSegments(segments) ==
    IF segments = <<>> THEN <<>>
    ELSE (IF Head(segments).providerId # None
          THEN <<(<<Head(segments).providerId, Head(segments).fromZone, Head(segments).toZone>>)>>
          ELSE <<>>)
         \o RouteSegments(Tail(segments))

\* C23: every segment of a returned path that a ProviderZoneRoute backs reports that
\* route's fromZone and toZone, and the segments are in travel order from origin to
\* destination, in the backward half of a bidirectional path as in its forward half
C23_SegmentsFollowRoutes ==
    (Returned /\ BothKnown) =>
        \A k \in DOMAIN result :
           ~IsFallback(result[k]) => RouteSegments(result[k].segments) = TransitLegs(result[k].nodes)

\* C24: every path other than the fallback that either engine returns is a path of the
\* search graph: its nodes start at the origin postcode vertex, end at the destination
\* postcode vertex, and each consecutive pair is, in travel direction, an entry edge, a
\* transit edge along a route the index holds, or an exit edge
C24_ReturnedPathIsInGraph ==
    (Returned /\ BothKnown) =>
        \A k \in DOMAIN result :
           ~IsFallback(result[k]) =>
              LET nodes == result[k].nodes
              IN  /\ nodes # <<>>
                  /\ nodes[1] = PCNode(call.originPC)
                  /\ nodes[Len(nodes)] = PCNode(call.destPC)
                  /\ \A i \in 1..(Len(nodes) - 1) : Linked(nodes[i], nodes[i + 1])

C24_Witness ==
    /\ Returned /\ BothKnown
    /\ call.engine = "bi"
    /\ \E k \in DOMAIN result :
          LET nodes == result[k].nodes
          IN  /\ ~IsFallback(result[k])
              /\ Len(nodes) >= 7
              /\ nodes[1] = PCNode(call.originPC)
              /\ nodes[Len(nodes)] = PCNode(call.destPC)
              /\ \E i \in 2..(Len(nodes) - 1) : nodes[i][1] = "pc"
              /\ \A i \in 1..(Len(nodes) - 1) : Linked(nodes[i], nodes[i + 1])

\* the providers of the routes along the transit edges of a node sequence
ProvidersAlong(nodes) == {TransitLegs(nodes)[i][1] : i \in DOMAIN TransitLegs(nodes)}

\* C25: in every returned path providersInvolved has no duplicate entry and is exactly the
\* set of providers of the routes backing the path's transit edges (entry and exit edges
\* add none), and numHops is the size of that set
C25_ProvidersAreASet ==
    pc = "done" =>
        \A k \in DOMAIN result :
           /\ Range(result[k].providersInvolved) = ProvidersAlong(result[k].nodes)
           /\ Len(result[k].providersInvolved) = Cardinality(ProvidersAlong(result[k].nodes))
           /\ result[k].numHops = Cardinality(ProvidersAlong(result[k].nodes))

C25_Witness ==
    /\ pc = "done"
    /\ \E k \in DOMAIN result :
          /\ Len(TransitLegs(result[k].nodes)) >= 3
          /\ result[k].numHops = 1
          /\ result[k].providersInvolved = <<"A">>

\* the postcode vertices with a recorded cost in both explorations
MeetingPostcodes ==
    {n \in DOMAIN forward_paths.cost \cap DOMAIN backward_paths.cost : n[1] = "pc"}

\* the candidates of a list: its paths other than the fallback
Candidates(paths) == {i \in DOMAIN paths : ~IsFallback(paths[i])}

\* how often the path p occurs in a list
Occurrences(p, paths) == Cardinality({i \in DOMAIN paths : paths[i] = p})

\* C26: the bidirectional merge emits exactly one candidate per postcode vertex that has a
\* recorded cost in both explorations and none for a zone vertex; find_mltihop_path then
\* returns the min(topK, number of candidates) candidates of lowest totalCost, so
\* optimized_for_cost returns at most 10 paths and optimize_multi_criteria at most 15
C26_OneCandidatePerMeeting ==
    (pc = "done" /\ call.engine = "bi" /\ call.entry # "unoptimized") =>
        LET n == Cardinality(MeetingPostcodes)
            m == IF call.topK < n THEN call.topK ELSE n
        IN  /\ Cardinality(Candidates(all_paths)) = n
            /\ \A v \in MeetingPostcodes : \E i \in Candidates(all_paths) : v \in Range(all_paths[i].nodes)
            /\ Cardinality(Candidates(result)) = m
            /\ call.entry \in {"find_mltihop_path", "optimized_for_cost"} =>
                  \A k \in Candidates(result) :
                     /\ Occurrences(result[k], result) <= Occurrences(result[k], all_paths)
                     /\ Cardinality({i \in DOMAIN all_paths :
                                       all_paths[i].totalCost < result[k].totalCost}) < k
                     /\ Cardinality({i \in DOMAIN all_paths :
                                       all_paths[i].totalCost <= result[k].totalCost}) >= k
            /\ call.entry = "optimized_for_cost" => Len(result) <= TopKDefault
            /\ call.entry = "optimize_multi_criteria" => Len(result) <= TopKMulti

C26_Witness ==
    /\ pc = "done" /\ call.engine = "bi" /\ call.entry = "optimized_for_cost"
    /\ Cardinality(MeetingPostcodes) > TopKDefault
    /\ Len(all_paths) = Cardinality(MeetingPostcodes)
    /\ Len(result) = TopKDefault
    /\ \E v \in DOMAIN forward_paths.cost \cap DOMAIN backward_paths.cost : v[1] = "pz"
    /\ \E i \in DOMAIN all_paths : all_paths[i].totalCost > result[Len(result)].totalCost

\* a call of find_mltihop_path is under way
Searching == pc \in {"forward", "backward", "merge", "uni"}

\* C27: every call of find_mltihop_path of either engine terminates: the unidirectional
\* loop pops the destination or empties its queue, both explorations of the bidirectional
\* engine empty their queues, and the reconstruction of every returned path ends
C27_EveryCallTerminates == Searching ~> (pc = "done")

C27_Witness ==
    /\ pc = "done"
    /\ call.engine = "uni"
    /\ search.counter > Cardinality(DOMAIN search.g_score) - 1
    /\ Len(result) = 1 /\ result[1].totalCost < Inf

\* a search loop is running
InSearch == pc \in {"forward", "backward", "uni"}

\* the vertex the running search started from
StartVertex == IF pc = "backward" THEN PCNode(call.destPC) ELSE PCNode(call.originPC)

\* following the parents of v for at most n links ends at the start vertex
RECURSIVE ReachesStart(_, _)
ReachesStart(v, n) ==
    IF v = StartVertex THEN TRUE
    ELSE IF n = 0 \/ v \notin DOMAIN search.came_from THEN FALSE
    ELSE ReachesStart(search.came_from[v], n - 1)

\* the recorded costs, parents and edges of the running search fit together
SearchRecordsFit ==
    InSearch =>
        /\ StartVertex \in DOMAIN search.g_score
        /\ search.g_score[StartVertex] = 0
        /\ StartVertex \notin DOMAIN search.came_from
        /\ DOMAIN search.came_from = DOMAIN search.g_score \ {StartVertex}
        /\ DOMAIN search.edge_data = DOMAIN search.came_from
        /\ \A v \in DOMAIN search.came_from :
              /\ search.g_score[v] >= search.g_score[search.came_from[v]] + search.edge_data[v].cost
              /\ search.edge_data[v].cost >= 0
              /\ ReachesStart(v, Cardinality(DOMAIN search.came_from))

\* a turn of a search loop lowers costs only, and changes the parent and the edge of a
\* vertex exactly when it lowers its cost
SearchTurnImproves ==
    (InSearch /\ pc' = pc) =>
        /\ DOMAIN search.g_score \subseteq DOMAIN search'.g_score
        /\ \A v \in DOMAIN search.g_score : search'.g_score[v] <= search.g_score[v]
        /\ \A v \in DOMAIN search'.g_score \ {StartVertex} :
              LET improved == v \notin DOMAIN search.g_score
                                 \/ search'.g_score[v] < search.g_score[v]
                  rewritten == \/ v \notin DOMAIN search.came_from
                               \/ search'.came_from[v] # search.came_from[v]
                               \/ search'.edge_data[v] # search.edge_data[v]
              IN  /\ rewritten => improved
                  /\ improved =>
                        /\ v \in DOMAIN search'.came_from /\ v \in DOMAIN search'.edge_data
                        /\ search'.g_score[v]
                              = search'.g_score[search'.came_from[v]] + search'.edge_data[v].cost

\* C28: in every state of a search of either engine and direction a vertex's recorded
\* cost never increases once set; parent and edge metadata change together with the cost
\* and only on a strict improvement; g[v] >= g[parent[v]] + the cost of the recorded edge
\* into v; the start vertex has cost 0 and no parent; and the parent map is acyclic, so
\* following parents from any vertex that has one reaches the start vertex
C28_SearchRecordsStayConsistent == []SearchRecordsFit /\ [][SearchTurnImproves]_vars

C28_Witness ==
    /\ pc \in {"forward", "backward"}
    /\ search.counter > Cardinality(DOMAIN search.g_score)
    /\ \E v \in DOMAIN search.came_from :
          search.g_score[v] > search.g_score[search.came_from[v]] + search.edge_data[v].cost
    /\ SearchRecordsFit

\* C29: the list returned by the bidirectional find_mltihop_path holds no two paths with
\* the same node sequence, also when several meeting postcodes lie on one and the same
\* origin-to-destination path
C29_ReturnedRoutesAreDistinct ==
    (Returned /\ call.engine = "bi" /\ call.entry = "find_mltihop_path") =>
        \A j, k \in DOMAIN result : result[j].nodes = result[k].nodes => j = k

\* the sequence number the next push of the running search will use
NextSequence(s) == IF pc = "uni" THEN s.counter + 1 ELSE s.counter

\* the entries waiting in the queue carry pairwise different sequence numbers, all of them
\* handed out before the next one
QueueCountersFit ==
    InSearch =>
        /\ \A e \in search.open_set : e[2] >= 0 /\ e[2] < NextSequence(search)
        /\ \A e, o \in search.open_set : e[2] = o[2] => e = o

\* a turn of a search loop removes the entry that is least by (f, sequence number), and
\* the entries it pushes take the following sequence numbers, one each
PopsInOrder ==
    (InSearch /\ pc' = pc) =>
        LET removed == search.open_set \ search'.open_set
            pushed  == search'.open_set \ search.open_set
        IN  /\ Cardinality(removed) = 1
            /\ \A e \in removed : \A o \in search.open_set \ {e} :
                  e[1] < o[1] \/ (e[1] = o[1] /\ e[2] < o[2])
            /\ search'.counter >= search.counter
            /\ {e[2] : e \in pushed} = NextSequence(search) .. (NextSequence(search') - 1)
            /\ Cardinality(pushed) = search'.counter - search.counter

\* C30: in both engines the priority queue pops entries in order of (f, insertion
\* sequence); the sequence number of each pushed entry is unique and strictly increasing
\* over the whole search, so among entries of equal f the one pushed first is popped first
\* and two vertices are never compared to break a tie
C30_QueuePopsByCostThenSequence == []QueueCountersFit /\ [][PopsInOrder]_vars

C30_Witness ==
    /\ InSearch
    /\ \E e, o \in search.open_set :
          /\ e[1] = o[1] /\ e[2] < o[2] /\ e[3] # o[3]
          /\ \A x \in search.open_set : e[1] <= x[1]
    /\ QueueCountersFit

====
